---- MODULE Spec2Model ----
(***************************************************************************)
(* A model of the RSA dashboard of src/app.py: the Miller-Rabin primality  *)
(* tester, the prime generator, gcd and mod_inverse, the key pair          *)
(* generator, the per-character cipher, and the dashboard handlers that    *)
(* call them on the session state.                                         *)
(*                                                                         *)
(* A string is a sequence of characters; a character is the record         *)
(* [cp |-> c] of its code point, so that ord and chr are conversions.      *)
(* Python's None key is NoKey.  A call that can raise returns a pair       *)
(* <<"ok", value>> or <<exception name, ...>>.                             *)
(***************************************************************************)
EXTENDS Integers, Sequences, FiniteSets, TLC

(* ------------------------------ bounds -------------------------------- *)

\* generate_keypair(bits) is called with bits in 2..MaxBits.
MaxBits == 10
\* Messages have at most MaxLen characters.
MaxLen == 2
\* gcd and mod_inverse are applied to arguments up to MaxArg.
MaxArg == 48
\* is_prime is applied to the table 0..MaxN.
MaxN == 60
\* is_prime is applied to the table with k in 1..MaxRounds rounds.
MaxRounds == 6
\* The dashboard runs at most MaxRuns encrypt/decrypt handlers in a session.
MaxRuns == 2
\* A ciphertext entered by hand has blocks in 0..MaxBlock.
MaxBlock == 0
\* decrypt is applied to ciphertexts with blocks in 0..MaxCipher.
MaxCipher == 7
\* In the sessions that generate keys again, generate_keypair(bits) is called
\* with bits in 2..MaxSessionBits.
MaxSessionBits == 8

(* ------------------------- program constants -------------------------- *)

\* def is_prime(n, k=5)
DefaultRounds == 5
\* e = 65537
PublicExponent == 65537

VARIABLES
    pc,             \* position of the running call, "idle" between handlers
    bits,           \* generate_keypair: its argument
    p, q, n, phi, e, d,     \* generate_keypair: its locals
    target,         \* generate_keypair: which local the running generate_prime call assigns
    gp_bits, gp_p,  \* generate_prime: its argument and its candidate p
    ip_n, ip_k,     \* is_prime: its arguments
    ip_s, ip_d,     \* is_prime: n - 1 = 2^s * d
    ip_i,           \* is_prime: rounds of the k-loop completed
    ip_a,           \* is_prime: the witness of the last round
    ip_ret,         \* is_prime: its return value, when pc = "ip_ret"
    public_key, private_key,                    \* st.session_state keys
    original_msg, encrypted_msg, decrypted_msg, \* st.session_state messages
    encrypted_data, \* encryption handler: what encrypt returned in the last run
    ui,             \* what the last handler run reported on the page
    runs,           \* encrypt/decrypt handlers run so far
    fn, arg_a, arg_b, ret   \* a library call of gcd or mod_inverse and its result

kgvars == <<bits, p, q, n, phi, e, d, target>>
gpvars == <<gp_bits, gp_p>>
ipvars == <<ip_n, ip_k, ip_s, ip_d, ip_i, ip_a, ip_ret>>
keyvars == <<public_key, private_key>>
msgvars == <<original_msg, encrypted_msg, decrypted_msg, encrypted_data, ui, runs>>
fnvars == <<fn, arg_a, arg_b, ret>>
vars == <<pc, kgvars, gpvars, ipvars, keyvars, msgvars, fnvars>>

(* ------------------------- integer arithmetic ------------------------- *)

RECURSIVE Pow2(_)
\* 1 << k
Pow2(k) == IF k = 0 THEN 1 ELSE 2 * Pow2(k - 1)

RECURSIVE BitOr(_, _)
\* a | b on non-negative integers
BitOr(a, b) ==
    IF a = 0 THEN b
    ELSE IF b = 0 THEN a
    ELSE 2 * BitOr(a \div 2, b \div 2) + (IF a % 2 = 1 \/ b % 2 = 1 THEN 1 ELSE 0)

\* (a * b) % m for a, b < m < 2^22, with b taken in three digits of base 256:
\* no intermediate value reaches 2^31
MulModByParts(a, b, m) ==
    LET b2 == b \div 65536
        b1 == (b \div 256) % 256
        b0 == b % 256
        r2 == (a * b2) % m
        r1 == (((r2 * 256) % m) + ((a * b1) % m)) % m
    IN  (((r1 * 256) % m) + ((a * b0) % m)) % m

\* (a * b) % m for a, b < m as Python computes it, on integers of any size;
\* here the product is formed only when it fits the integers of the checker
MulMod(a, b, m) == IF m <= 46340 THEN (a * b) % m ELSE MulModByParts(a, b, m)

RECURSIVE ModExp(_, _, _)
\* pow(b, x, m), for x >= 0 and m >= 1, by squaring; a power that is 0 stays 0
ModExp(b, x, m) ==
    IF x = 0 THEN 1 % m
    ELSE LET h == ModExp(b, x \div 2, m)
         IN  IF h = 0 THEN 0
             ELSE LET sq == MulMod(h, h, m)
                  IN  IF x % 2 = 0 THEN sq ELSE MulMod(sq, b % m, m)

(* ------------------------ arithmetic, as defined ----------------------- *)

Divides(k, m) == m % k = 0

\* The greatest common divisor of a and b, not both 0, by its definition
GreatestCommonDivisor(a, b) ==
    LET top == IF a > b THEN a ELSE b
    IN  CHOOSE g \in 1..top :
            /\ Divides(g, a) /\ Divides(g, b)
            /\ \A h \in 1..top : Divides(h, a) /\ Divides(h, b) => h <= g

IsPrimeNumber(m) == m > 1 /\ \A k \in 2..(m - 1) : ~Divides(k, m)

\* a is a strong liar for the odd number m > 2, with m - 1 = 2^s * t, t odd:
\* a^t = 1 or a^(2^r * t) = -1 (mod m) for some r < s
StrongLiar(a, m) ==
    LET s == CHOOSE k \in 1..m : Divides(Pow2(k), m - 1) /\ ~Divides(Pow2(k + 1), m - 1)
        t == (m - 1) \div Pow2(s)
    IN  \/ ModExp(a, t, m) = 1
        \/ \E r \in 0..(s - 1) : ModExp(a, Pow2(r) * t, m) = m - 1

(* ------------------------------ is_prime ------------------------------ *)

RECURSIVE TwoAdicity(_)
\* the s of "while d % 2 == 0: s += 1; d //= 2", started at d
TwoAdicity(dd) == IF dd % 2 = 0 THEN 1 + TwoAdicity(dd \div 2) ELSE 0

RECURSIVE OddPart(_)
\* the d the same loop ends with
OddPart(dd) == IF dd % 2 = 0 THEN OddPart(dd \div 2) ELSE dd

RECURSIVE SquaringLoopOneRoundShort(_, _, _)
\* SquaringLoop with "range(s - 2)" for "range(s - 1)"
SquaringLoopOneRoundShort(x, left, nn) ==
    IF left <= 1 THEN FALSE
    ELSE LET x2 == ModExp(x, 2, nn)
         IN  IF x2 = nn - 1 THEN TRUE ELSE SquaringLoopOneRoundShort(x2, left - 1, nn)

RECURSIVE SquaringLoop(_, _, _)
\* "for _ in range(s - 1)": TRUE when the loop breaks on x == n - 1, FALSE
\* when it runs out (the else branch, return False)
SquaringLoop(x, left, nn) ==
    IF left <= 0 THEN FALSE
    ELSE LET x2 == ModExp(x, 2, nn)
         IN  IF x2 = nn - 1 THEN TRUE ELSE SquaringLoop(x2, left - 1, nn)

\* WitnessPasses with "if x == 1" for "if x == 1 or x == n - 1"
WitnessPassesWithoutMinusOne(nn, s, dd, a) ==
    LET x == ModExp(a, dd, nn)
    IN  IF x = 1 THEN TRUE ELSE SquaringLoop(x, s - 1, nn)

\* One round of the k-loop with witness a: TRUE when the round ends without
\* return False
WitnessPasses(nn, s, dd, a) ==
    LET x == ModExp(a, dd, nn)
    IN  IF x = 1 \/ x = nn - 1 THEN TRUE ELSE SquaringLoop(x, s - 1, nn)

\* is_prime up to the k-loop: the short circuits, then n - 1 = 2^s * d
IpEntry ==
    /\ pc = "ip_entry"
    /\ IF ip_n <= 1 \/ ip_n = 4
         THEN /\ pc' = "ip_ret" /\ ip_ret' = FALSE
              /\ UNCHANGED <<ip_s, ip_d>>
         ELSE IF ip_n <= 3
         THEN /\ pc' = "ip_ret" /\ ip_ret' = TRUE
              /\ UNCHANGED <<ip_s, ip_d>>
         ELSE IF ip_n % 2 = 0
         THEN /\ pc' = "ip_ret" /\ ip_ret' = FALSE
              /\ UNCHANGED <<ip_s, ip_d>>
         ELSE /\ pc' = "ip_loop"
              /\ ip_s' = TwoAdicity(ip_n - 1)
              /\ ip_d' = OddPart(ip_n - 1)
              /\ UNCHANGED ip_ret
    /\ UNCHANGED <<ip_n, ip_k, ip_i, ip_a>>
    /\ UNCHANGED <<kgvars, gpvars, keyvars, msgvars, fnvars>>

\* One round of "for _ in range(k)" with a = random.randint(2, n - 2)
IpRound(a) ==
    /\ pc = "ip_loop"
    /\ ip_i < ip_k
    /\ a \in 2..(ip_n - 2)
    /\ IF WitnessPasses(ip_n, ip_s, ip_d, a)
         THEN /\ ip_i' = ip_i + 1
              /\ UNCHANGED <<pc, ip_ret>>
         ELSE /\ pc' = "ip_ret"
              /\ ip_ret' = FALSE
              /\ UNCHANGED ip_i
    /\ ip_a' = a
    /\ UNCHANGED <<ip_n, ip_k, ip_s, ip_d>>
    /\ UNCHANGED <<kgvars, gpvars, keyvars, msgvars, fnvars>>

\* The k-loop is over: return True
IpReturnTrue ==
    /\ pc = "ip_loop"
    /\ ip_i = ip_k
    /\ pc' = "ip_ret"
    /\ ip_ret' = TRUE
    /\ UNCHANGED <<ip_n, ip_k, ip_s, ip_d, ip_i, ip_a>>
    /\ UNCHANGED <<kgvars, gpvars, keyvars, msgvars, fnvars>>

(* --------------------------- generate_prime --------------------------- *)

\* Candidate with "p |= 1": the top bit is not set
CandidateWithoutTopBit(b, r) == BitOr(r, 1)

\* p = random.getrandbits(bits); p |= (1 << bits - 1) | 1
Candidate(b, r) == BitOr(r, BitOr(Pow2(b - 1), 1))

\* One pass of "while True" up to the call is_prime(p), with r the random bits
GpDraw(r) ==
    /\ pc = "gp_draw"
    /\ r \in 0..(Pow2(gp_bits) - 1)
    /\ gp_p' = Candidate(gp_bits, r)
    /\ ip_n' = Candidate(gp_bits, r)
    /\ ip_k' = DefaultRounds
    /\ pc' = "ip_entry"
    /\ UNCHANGED <<gp_bits, ip_s, ip_d, ip_i, ip_a, ip_ret>>
    /\ UNCHANGED <<kgvars, keyvars, msgvars, fnvars>>

\* "if is_prime(p): return p", the value going to generate_keypair's p or q;
\* otherwise the next pass of the loop.  is_prime's frame is gone either way.
GpCheck ==
    /\ pc = "ip_ret"
    /\ IF ip_ret
         THEN /\ IF target = "p"
                   THEN /\ p' = gp_p
                        /\ target' = "q"
                        /\ pc' = "gp_draw"
                        /\ UNCHANGED <<q, gp_bits>>
                   ELSE /\ q' = gp_p
                        /\ pc' = "kg_distinct"
                        /\ gp_bits' = 0
                        /\ UNCHANGED <<p, target>>
              /\ gp_p' = 0
         ELSE /\ pc' = "gp_draw"
              /\ UNCHANGED <<p, q, target, gp_bits, gp_p>>
    /\ ip_n' = 0 /\ ip_k' = 0 /\ ip_ret' = FALSE
    /\ ip_s' = 0 /\ ip_d' = 0 /\ ip_i' = 0 /\ ip_a' = 0
    /\ UNCHANGED <<bits, n, phi, e, d, keyvars, msgvars, fnvars>>

(* ------------------------- gcd and mod_inverse ------------------------ *)

RECURSIVE GcdStoppingAtOne(_, _)
\* gcd with "while b > 1" for "while b"
GcdStoppingAtOne(a, b) == IF b > 1 THEN GcdStoppingAtOne(b, a % b) ELSE a

RECURSIVE gcd(_, _)
\* while b: a, b = b, a % b
gcd(a, b) == IF b # 0 THEN gcd(b, a % b) ELSE a

RECURSIVE ModInverseLoopStoppingAtZero(_, _, _, _)
\* ModInverseLoop with "while a > 1 and m" for "while a > 1"
ModInverseLoopStoppingAtZero(a, m, x, y) ==
    IF a > 1 /\ m # 0
      THEN ModInverseLoopStoppingAtZero(m, a % m, y, x - (a \div m) * y)
      ELSE <<"ok", x>>

RECURSIVE ModInverseLoop(_, _, _, _)
\* "while a > 1" of mod_inverse; a // m and a % m raise ZeroDivisionError
\* when m is 0
ModInverseLoop(a, m, x, y) ==
    IF a > 1
      THEN IF m = 0
             THEN <<"ZeroDivisionError", 0>>
             ELSE ModInverseLoop(m, a % m, y, x - (a \div m) * y)
      ELSE <<"ok", x>>

\* mod_inverse starting from "y = 1, x = 0" for "y = 0, x = 1"
ModInverseSwappedStart(a, m) ==
    IF m = 1 THEN <<"ok", 0>>
    ELSE LET r == ModInverseLoop(a, m, 0, 1)
         IN  IF r[1] = "ok" /\ r[2] < 0 THEN <<"ok", r[2] + m>> ELSE r

\* mod_inverse(a, m)
mod_inverse(a, m) ==
    IF m = 1 THEN <<"ok", 0>>
    ELSE LET r == ModInverseLoop(a, m, 1, 0)
         IN  IF r[1] = "ok" /\ r[2] < 0 THEN <<"ok", r[2] + m>> ELSE r

(* -------------------------- generate_keypair -------------------------- *)

NoKey == <<>>

\* The key sizes generate_keypair is called with
KeySizes == 2..MaxBits

\* generate_keypair(bits) up to its first call, p = generate_prime(bits // 2).
\* The session modelled generates its key pair once, before any key is stored.
KgStart(b) ==
    /\ pc = "idle"
    /\ public_key = NoKey
    /\ b \in KeySizes
    /\ bits' = b
    /\ target' = "p"
    /\ gp_bits' = b \div 2
    /\ pc' = "gp_draw"
    /\ UNCHANGED <<p, q, n, phi, e, d, gp_p, ipvars, keyvars, msgvars, fnvars>>

\* KgDistinct without the loop "while p == q"
KgDistinctWithoutLoop ==
    /\ pc = "kg_distinct"
    /\ n' = p * q
    /\ phi' = (p - 1) * (q - 1)
    /\ e' = PublicExponent
    /\ pc' = "kg_choose_e"
    /\ UNCHANGED <<bits, p, q, d, target, gpvars, ipvars, keyvars, msgvars, fnvars>>

\* "while p == q: q = generate_prime(bits // 2)", then n, phi and e = 65537
KgDistinct ==
    /\ pc = "kg_distinct"
    /\ IF p = q
         THEN /\ gp_bits' = bits \div 2
              /\ pc' = "gp_draw"
              /\ UNCHANGED <<n, phi, e>>
         ELSE /\ n' = p * q
              /\ phi' = (p - 1) * (q - 1)
              /\ e' = PublicExponent
              /\ pc' = "kg_choose_e"
              /\ UNCHANGED gp_bits
    /\ UNCHANGED <<bits, p, q, d, target, gp_p, ipvars, keyvars, msgvars, fnvars>>

\* "while gcd(e, phi) != 1: e = random.randint(2, phi - 1)", then
\* d = mod_inverse(e, phi)
KgChooseE ==
    /\ pc = "kg_choose_e"
    /\ IF gcd(e, phi) # 1
         THEN /\ e' \in 2..(phi - 1)
              /\ UNCHANGED <<pc, d>>
         ELSE LET r == mod_inverse(e, phi)
              IN  /\ pc' = IF r[1] = "ok" THEN "kg_return" ELSE "raised"
                  /\ d' = r[2]
                  /\ UNCHANGED e
    /\ UNCHANGED <<bits, p, q, n, phi, target, gpvars, ipvars, keyvars, msgvars, fnvars>>

\* return ((n, e), (n, d))
KgReturnValue == << <<n, e>>, <<n, d>> >>

\* The key generation handler once generate_keypair has returned:
\* public, private = generate_keypair(key_bits), stored in the session
KeygenStore ==
    /\ pc = "kg_return"
    /\ public_key' = KgReturnValue[1]
    /\ private_key' = KgReturnValue[2]
    /\ pc' = "idle"
    /\ bits' = 0 /\ p' = 0 /\ q' = 0 /\ n' = 0 /\ phi' = 0 /\ e' = 0 /\ d' = 0
    /\ target' = ""
    /\ UNCHANGED <<gpvars, ipvars, msgvars, fnvars>>

(* ------------------------------- cipher ------------------------------- *)

\* chr and ord: chr raises ValueError outside range(0x110000)
MaxCodePoint == 17 * 65536 - 1
Char(c) == [cp |-> c]
ord(ch) == ch.cp
chr(i) == IF i \in 0..MaxCodePoint THEN <<"ok", Char(i)>> ELSE <<"ValueError", Char(0)>>

RECURSIVE EncryptFrom(_, _, _, _, _)
\* "for char in plaintext" of encrypt, from position i with the blocks
\* appended so far; a character with ord(char) >= n makes it return []
EncryptFrom(nn, ee, plaintext, i, encrypted_msg_chars) ==
    IF i > Len(plaintext) THEN encrypted_msg_chars
    ELSE LET char_as_int == ord(plaintext[i])
         IN  IF char_as_int >= nn
               THEN <<>>
               ELSE EncryptFrom(nn, ee, plaintext, i + 1,
                                Append(encrypted_msg_chars, ModExp(char_as_int, ee, nn)))

RECURSIVE EncryptFromKeepingBlocks(_, _, _, _, _)
\* EncryptFrom returning the blocks computed so far for "return []"
EncryptFromKeepingBlocks(nn, ee, plaintext, i, encrypted_msg_chars) ==
    IF i > Len(plaintext) THEN encrypted_msg_chars
    ELSE LET char_as_int == ord(plaintext[i])
         IN  IF char_as_int >= nn
               THEN encrypted_msg_chars
               ELSE EncryptFromKeepingBlocks(nn, ee, plaintext, i + 1,
                        Append(encrypted_msg_chars, ModExp(char_as_int, ee, nn)))

EncryptKeepingBlocks(pub, plaintext) ==
    EncryptFromKeepingBlocks(pub[1], pub[2], plaintext, 1, <<>>)

RECURSIVE EncryptFromPrepending(_, _, _, _, _)
\* EncryptFrom with insert(0, ...) for append
EncryptFromPrepending(nn, ee, plaintext, i, encrypted_msg_chars) ==
    IF i > Len(plaintext) THEN encrypted_msg_chars
    ELSE LET char_as_int == ord(plaintext[i])
         IN  IF char_as_int >= nn
               THEN <<>>
               ELSE EncryptFromPrepending(nn, ee, plaintext, i + 1,
                        <<ModExp(char_as_int, ee, nn)>> \o encrypted_msg_chars)

EncryptPrepending(pub, plaintext) ==
    EncryptFromPrepending(pub[1], pub[2], plaintext, 1, <<>>)

\* encrypt(public_key, plaintext)
encrypt(pub, plaintext) == EncryptFrom(pub[1], pub[2], plaintext, 1, <<>>)

RECURSIVE DecryptFromPrepending(_, _, _, _, _)
\* DecryptFrom with insert(0, ...) for append
DecryptFromPrepending(nn, dd, ciphertext, i, decrypted_chars) ==
    IF i > Len(ciphertext) THEN <<"ok", decrypted_chars>>
    ELSE LET c == chr(ModExp(ciphertext[i], dd, nn))
         IN  IF c[1] = "ok"
               THEN DecryptFromPrepending(nn, dd, ciphertext, i + 1,
                                          <<c[2]>> \o decrypted_chars)
               ELSE <<c[1], <<>> >>

RECURSIVE DecryptFrom(_, _, _, _, _)
\* "for char_code in ciphertext" of decrypt, then "".join
DecryptFrom(nn, dd, ciphertext, i, decrypted_chars) ==
    IF i > Len(ciphertext) THEN <<"ok", decrypted_chars>>
    ELSE LET c == chr(ModExp(ciphertext[i], dd, nn))
         IN  IF c[1] = "ok"
               THEN DecryptFrom(nn, dd, ciphertext, i + 1, Append(decrypted_chars, c[2]))
               ELSE <<c[1], <<>> >>

\* decrypt with pow(char_code, d, n) taken with the exponent d - 1
DecryptWithExponentOff(priv, ciphertext) ==
    DecryptFrom(priv[1], priv[2] - 1, ciphertext, 1, <<>>)

\* decrypt(private_key, ciphertext)
decrypt(priv, ciphertext) == DecryptFrom(priv[1], priv[2], ciphertext, 1, <<>>)

(* ------------------------- dashboard handlers ------------------------- *)

\* The characters typed in the model: '!' and 'H'; the smallest modulus, 35,
\* lies between their code points
Alphabet == {Char(33), Char(72)}

RECURSIVE SeqsUpTo(_, _)
SeqsUpTo(S, k) ==
    IF k = 0 THEN {<<>>}
    ELSE LET shorter == SeqsUpTo(S, k - 1)
         IN  shorter \cup {Append(t, x) : t \in shorter, x \in S}

\* What the text area of the encryption page can hold
Messages == SeqsUpTo(Alphabet, MaxLen)

\* What the manual ciphertext box can evaluate to
ManualCiphertexts == SeqsUpTo(0..MaxBlock, MaxLen)

\* The encryption page run with "Encrypt Message" pressed
EncryptButton(message_to_encrypt) ==
    /\ pc = "idle"
    /\ public_key # NoKey
    /\ runs < MaxRuns
    /\ message_to_encrypt \in Messages
    /\ original_msg' = message_to_encrypt
    /\ encrypted_data' = encrypt(public_key, message_to_encrypt)
    /\ IF encrypted_data' # <<>>
         THEN /\ encrypted_msg' = encrypted_data'
              /\ ui' = "Message encrypted successfully!"
         ELSE /\ ui' = "Encryption failed."
              /\ UNCHANGED encrypted_msg
    /\ runs' = runs + 1
    /\ UNCHANGED <<pc, decrypted_msg, kgvars, gpvars, ipvars, keyvars, fnvars>>

\* DecryptButton without "st.session_state.decrypted_msg = decrypted_message":
\* the verification compares the original message with what was stored before
DecryptButtonWithoutStore(decrypt_option, manual_cipher) ==
    /\ pc = "idle"
    /\ private_key # NoKey
    /\ runs < MaxRuns
    /\ decrypt_option \in {"Use Last Encrypted Message", "Input Ciphertext Manually"}
    /\ manual_cipher \in ManualCiphertexts
    /\ decrypt_option = "Use Last Encrypted Message" => manual_cipher = <<>>
    /\ LET ciphertext_to_decrypt ==
               IF decrypt_option = "Use Last Encrypted Message"
                 THEN encrypted_msg ELSE manual_cipher
           decrypted_message == decrypt(private_key, ciphertext_to_decrypt)
       IN  IF ciphertext_to_decrypt = <<>>
             THEN ui' = "No message to decrypt."
             ELSE IF decrypted_message[1] # "ok"
             THEN ui' = decrypted_message[1]
             ELSE ui' = IF original_msg = decrypted_msg
                          THEN "Verification Successful!"
                          ELSE "Verification Failed!"
    /\ encrypted_data' = <<>>
    /\ runs' = runs + 1
    /\ UNCHANGED <<pc, original_msg, encrypted_msg, decrypted_msg>>
    /\ UNCHANGED <<kgvars, gpvars, ipvars, keyvars, fnvars>>

\* The decryption page run with "Decrypt Message" pressed, on the last
\* encrypted message or on a ciphertext entered by hand
DecryptButton(decrypt_option, manual_cipher) ==
    /\ pc = "idle"
    /\ private_key # NoKey
    /\ runs < MaxRuns
    /\ decrypt_option \in {"Use Last Encrypted Message", "Input Ciphertext Manually"}
    /\ manual_cipher \in ManualCiphertexts
    /\ decrypt_option = "Use Last Encrypted Message" => manual_cipher = <<>>
    /\ LET ciphertext_to_decrypt ==
               IF decrypt_option = "Use Last Encrypted Message"
                 THEN encrypted_msg ELSE manual_cipher
           decrypted_message == decrypt(private_key, ciphertext_to_decrypt)
       IN  IF ciphertext_to_decrypt = <<>>
             THEN /\ ui' = "No message to decrypt."
                  /\ UNCHANGED decrypted_msg
             ELSE IF decrypted_message[1] # "ok"
             THEN /\ ui' = decrypted_message[1]
                  /\ UNCHANGED decrypted_msg
             ELSE /\ decrypted_msg' = decrypted_message[2]
                  /\ ui' = IF original_msg = decrypted_message[2]
                             THEN "Verification Successful!"
                             ELSE "Verification Failed!"
    /\ encrypted_data' = <<>>
    /\ runs' = runs + 1
    /\ UNCHANGED <<pc, original_msg, encrypted_msg, kgvars, gpvars, ipvars, keyvars, fnvars>>

(* --------------------------- specifications --------------------------- *)

\* No call of generate_keypair, generate_prime or is_prime is running
NoCall ==
    /\ bits = 0 /\ p = 0 /\ q = 0 /\ n = 0 /\ phi = 0 /\ e = 0 /\ d = 0
    /\ target = ""
    /\ gp_bits = 0 /\ gp_p = 0
    /\ ip_s = 0 /\ ip_d = 0 /\ ip_i = 0 /\ ip_a = 0
    /\ ip_ret = FALSE

\* The "Initialize session state" block
FreshSession ==
    /\ public_key = NoKey /\ private_key = NoKey
    /\ original_msg = <<>> /\ encrypted_msg = <<>> /\ decrypted_msg = <<>>
    /\ encrypted_data = <<>>
    /\ ui = ""
    /\ runs = 0

\* The dashboard when a session opens
Init ==
    /\ pc = "idle"
    /\ NoCall
    /\ ip_n = 0 /\ ip_k = 0
    /\ FreshSession
    /\ fn = "" /\ arg_a = 0 /\ arg_b = 0 /\ ret = <<"none", 0>>

IsPrimeNext ==
    \/ IpEntry
    \/ \E a \in 2..(ip_n - 2) : IpRound(a)
    \/ IpReturnTrue

KeygenNext ==
    \/ \E b \in KeySizes : KgStart(b)
    \/ \E r \in 0..(Pow2(MaxBits \div 2) - 1) : GpDraw(r)
    \/ IsPrimeNext
    \/ GpCheck
    \/ KgDistinct
    \/ KgChooseE
    \/ KeygenStore

CipherNext ==
    \/ \E m \in Messages : EncryptButton(m)
    \/ \E o \in {"Use Last Encrypted Message", "Input Ciphertext Manually"},
          c \in ManualCiphertexts : DecryptButton(o, c)

Next == KeygenNext \/ CipherNext

\* The dashboard session: key generation, then encryption and decryption runs
Spec == Init /\ [][Next]_vars

\* The steps of a running generate_keypair call that draw no candidate
KeygenStep == IsPrimeNext \/ GpCheck \/ KgDistinct \/ KgChooseE \/ KeygenStore

\* Some candidate is drawn
GpDrawAny == \E r \in 0..(Pow2(MaxBits \div 2) - 1) : GpDraw(r)

\* A prime candidate other than generate_keypair's p is drawn
GpDrawPrimeOtherThanP ==
    \E r \in 0..(Pow2(MaxBits \div 2) - 1) :
        /\ GpDraw(r)
        /\ IsPrimeNumber(Candidate(gp_bits, r))
        /\ Candidate(gp_bits, r) # p

\* Key generation alone, its random draws fair.  No step of a running call
\* is postponed for ever, and getrandbits is fair: while candidates are
\* drawn again and again, every value comes up again and again, so a prime
\* other than p does whenever the bit length has one.  Pressing the button
\* is not forced.
KeygenFairness ==
    /\ WF_vars(KeygenStep \/ GpDrawAny)
    /\ SF_vars(GpDrawPrimeOtherThanP)

FairSpec == Init /\ [][KeygenNext]_vars /\ KeygenFairness

(* ------------------ the dashboard, handler by handler ------------------ *)

\* The key sizes of the sessions whose handlers run in any order
SessionKeySizes == 2..MaxSessionBits

\* The key pair generate_keypair returns when generate_prime returned P and
\* Q, P # Q, and e = 65537 is coprime with (P - 1)(Q - 1)
KeyPairOf(P, Q) ==
    << <<P * Q, PublicExponent>>,
       <<P * Q, mod_inverse(PublicExponent, (P - 1) * (Q - 1))[2]>> >>

\* is_prime(c) can return True: by a short circuit, or with every round
\* passing, as it does when each draw is one witness that passes
IsPrimeCanReturnTrue(c) ==
    \/ c \in {2, 3}
    \/ /\ c > 4 /\ c % 2 = 1
       /\ \E a \in 2..(c - 2) : WitnessPasses(c, TwoAdicity(c - 1), OddPart(c - 1), a)

\* The values generate_prime(b) can return
GeneratePrimeResults(b) ==
    {c \in {Candidate(b, r) : r \in 0..(Pow2(b) - 1)} : IsPrimeCanReturnTrue(c)}

\* The key pairs generate_keypair(b) can return, for each key size b: p and
\* q are values generate_prime(b // 2) can return, p # q.  With
\* (p - 1)(q - 1) below 65537 the loop on e is not entered.
GeneratedKeyPairs ==
    [b \in SessionKeySizes |->
        {KeyPairOf(P, Q) : <<P, Q>> \in
            {pq \in GeneratePrimeResults(b \div 2) \X GeneratePrimeResults(b \div 2) :
                /\ pq[1] # pq[2]
                /\ gcd(PublicExponent, (pq[1] - 1) * (pq[2] - 1)) = 1}}]

\* The key generation handler as one run: generate_keypair(b) returns and its
\* keys are stored; the messages of the session stay as they are.
KeygenButton(b) ==
    /\ pc = "idle"
    /\ b \in SessionKeySizes
    /\ \E pair \in GeneratedKeyPairs[b] :
          /\ public_key' = pair[1]
          /\ private_key' = pair[2]
    /\ encrypted_data' = <<>>
    /\ ui' = "Key Parameters Generated"
    /\ UNCHANGED <<pc, original_msg, encrypted_msg, decrypted_msg, runs>>
    /\ UNCHANGED <<kgvars, gpvars, ipvars, fnvars>>

\* The encryption page run after its text area was edited, no button pressed:
\* st.session_state.original_msg = message_to_encrypt
EditMessage(message_to_encrypt) ==
    /\ pc = "idle"
    /\ public_key # NoKey
    /\ message_to_encrypt \in Messages
    /\ message_to_encrypt # original_msg
    /\ original_msg' = message_to_encrypt
    /\ encrypted_data' = <<>>
    /\ ui' = ""
    /\ UNCHANGED <<pc, encrypted_msg, decrypted_msg, runs>>
    /\ UNCHANGED <<kgvars, gpvars, ipvars, keyvars, fnvars>>

SessionNext ==
    \/ \E b \in SessionKeySizes : KeygenButton(b)
    \/ \E m \in Messages : EditMessage(m)
    \/ CipherNext

\* The dashboard session, its handlers run whole and in any order
SessionSpec == Init /\ [][SessionNext]_vars

(* ------------------- the library functions on a table ------------------ *)

\* gcd(arg_a, arg_b)
CallGcd ==
    /\ pc = "call"
    /\ fn = "gcd"
    /\ ret' = <<"ok", gcd(arg_a, arg_b)>>
    /\ pc' = "returned"
    /\ UNCHANGED <<fn, arg_a, arg_b, kgvars, gpvars, ipvars, keyvars, msgvars>>

\* mod_inverse(arg_a, arg_b)
CallModInverse ==
    /\ pc = "call"
    /\ fn = "mod_inverse"
    /\ ret' = mod_inverse(arg_a, arg_b)
    /\ pc' = "returned"
    /\ UNCHANGED <<fn, arg_a, arg_b, kgvars, gpvars, ipvars, keyvars, msgvars>>

\* The primes of the key pairs decrypt is applied to: 3-bit primes, of
\* generate_keypair(6), and 11-bit primes, of generate_keypair(22), whose
\* modulus 4137131 exceeds the code points chr accepts
TablePrimes == {<<5, 7>>, <<2029, 2039>>}

\* The ciphertexts decrypt is applied to
TableCiphertexts == SeqsUpTo(0..MaxCipher, MaxLen)

\* decrypt(private_key, encrypted_msg), the ciphertext any list of integers
CallDecrypt ==
    /\ pc = "call"
    /\ fn = "decrypt"
    /\ ret' = decrypt(private_key, encrypted_msg)
    /\ pc' = "returned"
    /\ UNCHANGED <<fn, arg_a, arg_b, kgvars, gpvars, ipvars, keyvars, msgvars>>

\* One call of gcd, of mod_inverse, of is_prime or of decrypt, on arguments
\* of the table
FnInit ==
    /\ NoCall
    /\ ret = <<"none", 0>>
    /\ \/ /\ fn = "gcd" /\ pc = "call"
          /\ arg_a \in 0..MaxArg /\ arg_b \in 0..MaxArg
          /\ ip_n = 0 /\ ip_k = 0
          /\ FreshSession
       \/ /\ fn = "mod_inverse" /\ pc = "call"
          /\ arg_a \in 0..MaxArg /\ arg_b \in 1..MaxArg
          /\ ip_n = 0 /\ ip_k = 0
          /\ FreshSession
       \/ /\ fn = "is_prime" /\ pc = "ip_entry"
          /\ arg_a = 0 /\ arg_b = 0
          /\ ip_n \in 0..MaxN /\ ip_k \in 1..MaxRounds
          /\ FreshSession
       \/ /\ fn = "decrypt" /\ pc = "call"
          /\ arg_a = 0 /\ arg_b = 0
          /\ ip_n = 0 /\ ip_k = 0
          /\ \E pq \in TablePrimes :
                /\ public_key = KeyPairOf(pq[1], pq[2])[1]
                /\ private_key = KeyPairOf(pq[1], pq[2])[2]
          /\ encrypted_msg \in TableCiphertexts
          /\ original_msg = <<>> /\ decrypted_msg = <<>> /\ encrypted_data = <<>>
          /\ ui = "" /\ runs = 0

FnNext == CallGcd \/ CallModInverse \/ IsPrimeNext \/ CallDecrypt

FnSpec == FnInit /\ [][FnNext]_vars

(* ------------------------------- claims ------------------------------- *)

GcdReturned == fn = "gcd" /\ pc = "returned"

\* C10: gcd(a, b) is the greatest common divisor of a and b for all
\* non-negative a, b not both zero; gcd(a, 0) = a; gcd(48, 18) = 6.
C10_GcdIsGreatestCommonDivisor ==
    (GcdReturned /\ (arg_a # 0 \/ arg_b # 0)) =>
        /\ ret = <<"ok", GreatestCommonDivisor(arg_a, arg_b)>>
        /\ arg_b = 0 => ret[2] = arg_a
        /\ (arg_a = 48 /\ arg_b = 18) => ret[2] = 6

C10_Witness == GcdReturned /\ arg_a = 48 /\ arg_b = 18 /\ ret = <<"ok", 6>>

ModInverseReturned == fn = "mod_inverse" /\ pc = "returned"

Coprime(a, m) == GreatestCommonDivisor(a, m) = 1

IsPrimeReturned == fn = "is_prime" /\ pc = "ip_ret"

\* C6, as claimed: for every n of the table and k >= 5, is_prime(n, k)
\* returns the true primality of n, whatever witnesses are drawn.
C6_MatchesPrimalityWhateverWitnesses ==
    (IsPrimeReturned /\ ip_k >= 5) => (ip_ret = IsPrimeNumber(ip_n))

\* C6, amended: for every n of the table and k >= 5, is_prime(n, k) returns
\* True when n is prime; when n is composite it returns False unless n is odd
\* and each of the k witnesses drawn is a strong liar for n (as 7 and 18 are
\* for 25); a round ends in return False only on a witness that is no strong
\* liar.
C6_MatchesPrimalityUnlessAllLiars ==
    (fn = "is_prime" /\ ip_k >= 5) =>
        /\ (pc = "ip_ret" /\ IsPrimeNumber(ip_n)) => ip_ret
        /\ (pc = "ip_ret" /\ ~IsPrimeNumber(ip_n) /\ ip_ret) =>
               /\ ip_n % 2 = 1
               /\ ip_i = ip_k
               /\ StrongLiar(ip_a, ip_n)
        /\ (pc = "ip_loop" /\ ip_i > 0 /\ ~IsPrimeNumber(ip_n)) => StrongLiar(ip_a, ip_n)
        /\ (pc = "ip_ret" /\ ~ip_ret /\ ip_a # 0) => ~StrongLiar(ip_a, ip_n)

C6_Witness ==
    /\ IsPrimeReturned /\ ip_k >= 5 /\ ip_i = ip_k
    /\ IsPrimeNumber(ip_n) /\ ip_ret

EncryptRan == ui \in {"Message encrypted successfully!", "Encryption failed."}

\* Every character of msg has a code point below m
AllBelow(msg, m) == \A i \in 1..Len(msg) : ord(msg[i]) < m

SmallestFactor(m) == CHOOSE f \in 2..m : Divides(f, m) /\ \A g \in 2..(f - 1) : ~Divides(g, m)

\* m is the product of two distinct primes
TwoDistinctPrimes(m) ==
    /\ m > 1
    /\ LET f == SmallestFactor(m)
       IN  f # m /\ IsPrimeNumber(m \div f) /\ m \div f # f

\* C1, as claimed: for every key pair returned by generate_keypair and every
\* plaintext with all code points below n, decrypt(private, encrypt(public,
\* plaintext)) is the plaintext.
C1_RoundTripForEveryKeyPair ==
    (EncryptRan /\ AllBelow(original_msg, public_key[1])) =>
        decrypt(private_key, encrypted_data) = <<"ok", original_msg>>

\* C1, amended: for every key pair returned by generate_keypair whose p and q
\* are both prime, that is, unless is_prime accepted a composite candidate,
\* and every plaintext with all code points below n, decrypt(private,
\* encrypt(public, plaintext)) is the plaintext.
C1_RoundTripForPrimeFactors ==
    (EncryptRan /\ AllBelow(original_msg, public_key[1])
                /\ TwoDistinctPrimes(public_key[1])) =>
        decrypt(private_key, encrypted_data) = <<"ok", original_msg>>

C1_Witness ==
    /\ EncryptRan /\ AllBelow(original_msg, public_key[1])
    /\ TwoDistinctPrimes(public_key[1])
    /\ Len(original_msg) = 2 /\ original_msg[1] # original_msg[2]
    /\ decrypt(private_key, encrypted_data) = <<"ok", original_msg>>

\* C2: every pair ((n, e), (n, d)) returned by generate_keypair has the same
\* modulus n = p * q in both keys, p # q the values generate_prime returned,
\* gcd(e, (p-1)(q-1)) = 1 and (e * d) mod ((p-1)(q-1)) = 1; the handler stores
\* the two keys of the pair.
C2_KeypairConsistent ==
    /\ pc = "kg_return" =>
          LET pub == KgReturnValue[1]
              priv == KgReturnValue[2]
              totient == (p - 1) * (q - 1)
          IN  /\ pub[1] = p * q /\ priv[1] = p * q
              /\ p # q
              /\ GreatestCommonDivisor(pub[2], totient) = 1
              /\ (pub[2] * priv[2]) % totient = 1
    /\ (public_key # NoKey \/ private_key # NoKey) =>
          /\ public_key # NoKey /\ private_key # NoKey
          /\ public_key[1] = private_key[1]

C2_Witness == pc = "kg_return" /\ p # q /\ (e * d) % ((p - 1) * (q - 1)) = 1 /\ e > phi

\* C3: if a character of the plaintext, at any position, has a code point
\* >= n, encrypt returns the empty sequence, not the blocks computed for the
\* characters before it.
C3_NoPartialCiphertext ==
    (EncryptRan /\ ~AllBelow(original_msg, public_key[1])) =>
        /\ encrypted_data = <<>>
        /\ ui = "Encryption failed."

C3_Witness ==
    /\ EncryptRan /\ Len(original_msg) = 2
    /\ ord(original_msg[1]) < public_key[1] /\ ord(original_msg[2]) >= public_key[1]
    /\ encrypted_data = <<>>

\* C4: for a plaintext with all code points below n, encrypt returns
\* len(plaintext) integers, the i-th being ord(plaintext[i])^e mod n, each
\* below n.
C4_BlockPerCharacterInOrder ==
    (EncryptRan /\ AllBelow(original_msg, public_key[1])) =>
        /\ Len(encrypted_data) = Len(original_msg)
        /\ \A i \in 1..Len(original_msg) :
               /\ encrypted_data[i] = ModExp(ord(original_msg[i]), public_key[2], public_key[1])
               /\ encrypted_data[i] \in 0..(public_key[1] - 1)

C4_Witness ==
    /\ EncryptRan /\ AllBelow(original_msg, public_key[1])
    /\ Len(original_msg) = 2 /\ Len(encrypted_data) = 2
    /\ encrypted_data[1] # encrypted_data[2]

\* A step in which generate_prime leaves is_prime's result behind
AfterIsPrime == pc = "ip_ret" /\ pc' # "ip_ret"
GeneratePrimeReturns == AfterIsPrime /\ (target' # target \/ pc' = "kg_distinct")

\* C7: every value generate_prime(bits) returns lies in 2^(bits-1) ..
\* 2^bits - 1, is odd, and is the candidate is_prime just accepted with 5
\* rounds; a candidate is_prime rejected is not returned.
C7_ReturnedPrimeIsValid ==
    [][ /\ GeneratePrimeReturns =>
             LET v == IF target = "p" THEN p' ELSE q'
             IN  /\ ip_ret /\ ip_n = v /\ ip_k = DefaultRounds
                 /\ v > 3 => ip_i = DefaultRounds
                 /\ v \in Pow2(gp_bits - 1)..(Pow2(gp_bits) - 1)
                 /\ v % 2 = 1
        /\ (AfterIsPrime /\ ~ip_ret) => (~GeneratePrimeReturns /\ UNCHANGED <<p, q>>)
      ]_vars

C7_Witness == pc = "kg_distinct" /\ p > 3 /\ q > 3 /\ p # q /\ p % 2 = 1 /\ q % 2 = 1

InGeneratePrime == pc \in {"gp_draw", "ip_entry", "ip_loop", "ip_ret"}

\* Every call of generate_prime with its argument in B returns: the call for
\* p is followed by the call for q, whose return is at "kg_distinct"
GeneratePrimeReturnsFor(B) ==
    (InGeneratePrime /\ gp_bits \in B) ~> (pc = "kg_distinct")

\* C8, as claimed: for every positive bits, under fair draws,
\* generate_prime(bits) eventually returns.
C8_GeneratePrimeTerminatesForEveryBits == GeneratePrimeReturnsFor(1..(MaxBits \div 2))

\* C8, amended: for every bits >= 2, under fair draws, generate_prime(bits)
\* eventually returns; generate_prime(1) tests the candidate 1 for ever.
C8_GeneratePrimeTerminatesFromTwoBits == GeneratePrimeReturnsFor(2..(MaxBits \div 2))

C8_Witness == pc = "kg_distinct" /\ bits \div 2 >= 2 /\ q # 0

\* generate_keypair(b) returns, with p # q, for every b in B
KeypairReturnsFor(B) == (bits \in B) ~> (pc = "kg_return" /\ p # q)

EvenKeySizes == {b \in KeySizes : b % 2 = 0}

C11_NonCoprimeRaisesNoError ==
    (ModInverseReturned /\ arg_b >= 2 /\ ~Coprime(arg_a, arg_b)) => ret[1] = "ok"

\* C11, amended: mod_inverse(a, m) with m >= 2 and gcd(a, m) # 1 terminates;
\* for a >= 2 it raises ZeroDivisionError (the loop reaches m = 0 with a the
\* common divisor, still > 1, and divides by m); only for a = 0 does it raise
\* no error, returning 1.
C11_NonCoprimeRaisesZeroDivision ==
    (ModInverseReturned /\ arg_b >= 2 /\ ~Coprime(arg_a, arg_b)) =>
        /\ arg_a >= 2 => ret[1] = "ZeroDivisionError"
        /\ arg_a = 0 => ret = <<"ok", 1>>

C11_Witness ==
    /\ ModInverseReturned /\ arg_a = 2 /\ arg_b = 4
    /\ ret[1] = "ZeroDivisionError"

DecryptReturned == fn = "decrypt" /\ pc = "returned"

\* The code point of the block c under the private key priv
Decoded(priv, c) == ModExp(c, priv[2], priv[1])

\* C12, as claimed: for every private key (n, d) and every sequence of
\* non-negative integers, decrypt does not fail: it returns a string of the
\* same length, its i-th character decoded from the i-th integer.
C12_DecryptNeverFails ==
    DecryptReturned =>
        /\ ret[1] = "ok"
        /\ Len(ret[2]) = Len(encrypted_msg)
        /\ \A i \in 1..Len(encrypted_msg) :
               ord(ret[2][i]) = Decoded(private_key, encrypted_msg[i])

\* C12, amended: decrypt checks no bounds; for every private key (n, d) of
\* generate_keypair and every sequence of non-negative integers, it returns
\* a string of the same length, the i-th character decoded from the i-th
\* integer, when every c^d mod n is below 0x110000 (so always when
\* n <= 0x110000), and raises ValueError, from chr, otherwise.
C12_DecryptFailsOnlyOutOfChrRange ==
    DecryptReturned =>
        IF \A i \in 1..Len(encrypted_msg) :
               Decoded(private_key, encrypted_msg[i]) <= MaxCodePoint
          THEN /\ ret[1] = "ok"
               /\ Len(ret[2]) = Len(encrypted_msg)
               /\ \A i \in 1..Len(encrypted_msg) :
                      ord(ret[2][i]) = Decoded(private_key, encrypted_msg[i])
          ELSE /\ ret[1] = "ValueError"
               /\ private_key[1] > MaxCodePoint + 1

C12_Witness ==
    /\ DecryptReturned /\ private_key[1] > MaxCodePoint + 1
    /\ Len(encrypted_msg) = 2 /\ ret[1] = "ok"
    /\ ord(ret[2][1]) # ord(ret[2][2])

\* C13: the public exponent generate_keypair returns satisfies 1 < e < phi(n)
\* and gcd(e, phi(n)) = 1, for every key size (the narration of step 4).
C13_ExponentBelowTotient ==
    pc = "kg_return" =>
        /\ 1 < e /\ e < phi
        /\ GreatestCommonDivisor(e, phi) = 1

\* C14: no false negatives: for every prime n, every k >= 1 and every
\* sequence of witnesses drawn from 2..n-2, no round ends in return False and
\* is_prime(n, k) returns True; a witness is drawn only when n is odd and
\* >= 5, so that 2..n-2 is not empty.
C14_NoFalseNegatives ==
    (fn = "is_prime" /\ ip_k >= 1) =>
        /\ (pc = "ip_ret" /\ IsPrimeNumber(ip_n)) => ip_ret
        /\ (pc = "ip_loop" /\ IsPrimeNumber(ip_n) /\ ip_i > 0) =>
               WitnessPasses(ip_n, ip_s, ip_d, ip_a)
        /\ (pc = "ip_loop" \/ ip_a # 0) =>
               /\ ip_n % 2 = 1 /\ ip_n >= 5
               /\ 2..(ip_n - 2) # {}
        /\ ip_a # 0 => ip_a \in 2..(ip_n - 2)

C14_Witness ==
    /\ IsPrimeReturned /\ ip_k = 1 /\ ip_i = 1
    /\ IsPrimeNumber(ip_n) /\ ip_n = 17 /\ ip_a = 3 /\ ip_ret

\* The decryption page runs decrypt on the last encrypted message
UseLastDecryptionRuns ==
    /\ DecryptButton("Use Last Encrypted Message", <<>>)
    /\ encrypted_msg # <<>>

\* The stored ciphertext is what encrypt returns for the stored original
\* message under the stored public key
CiphertextCurrent == encrypted_msg = encrypt(public_key, original_msg)

\* C15, as claimed: after any sequence of dashboard actions, whenever 'Use
\* Last Encrypted Message' decryption runs, the stored ciphertext was
\* produced by encrypt from the stored original message under the stored key
\* pair, the decrypted text is the stored original message and verification
\* succeeds.
C15_MatchingDecryptAlways ==
    [][ UseLastDecryptionRuns =>
            /\ CiphertextCurrent
            /\ decrypted_msg' = original_msg
            /\ ui' = "Verification Successful!"
      ]_vars

\* C15, amended: whenever 'Use Last Encrypted Message' decryption runs while
\* the stored ciphertext is the one encrypt produces from the stored original
\* message under the stored key pair, whose p and q are prime, the decrypted
\* text is the stored original message and verification succeeds; the stored
\* ciphertext need not be that one once the message was edited, keys were
\* generated again or an encryption failed since it was stored.
C15_MatchingDecryptWhenCiphertextCurrent ==
    [][ (UseLastDecryptionRuns /\ CiphertextCurrent
                                  /\ TwoDistinctPrimes(private_key[1])) =>
            /\ decrypted_msg' = original_msg
            /\ ui' = "Verification Successful!"
      ]_vars

C15_Witness ==
    /\ ui = "Verification Successful!" /\ CiphertextCurrent
    /\ Len(original_msg) = 2 /\ original_msg[1] # original_msg[2]
    /\ decrypted_msg = original_msg
    /\ TwoDistinctPrimes(private_key[1])

\* C16: the failure signal of encrypt is unambiguous: encrypt returns the
\* empty sequence, and the dashboard reports "Encryption failed" and leaves
\* the stored ciphertext unchanged, if and only if some character of the
\* message has a code point >= n.
C16_FailureIffCharacterTooLarge ==
    [][ \A m \in Messages :
            EncryptButton(m) =>
                ( ( /\ encrypted_data' = <<>>
                    /\ ui' = "Encryption failed."
                    /\ encrypted_msg' = encrypted_msg )
                  <=> ~AllBelow(m, public_key[1]) )
      ]_vars

====
